---- MODULE Spec2Model ----
(***************************************************************************)
(* Seddit: the post cache (src/PostCache.py, src/v2.py, src/data.py) as a  *)
(* state machine.  Strings whose characters matter (version strings,      *)
(* subreddit names) are sequences of one-character strings.               *)
(***************************************************************************)
EXTENDS Integers, Sequences, FiniteSets, TLC

VARIABLES
    now,          \* the wall clock read by time.time()
    fileExists,   \* os.path.exists(cache_file)
    file,         \* the JSON document stored at cache_file (key -> value)
    pc,           \* per process: "none" | "ready" | "failed"
    subreddit,    \* per process: PostCache.subreddit
    feed_ages,    \* per process: PostCache.feed_ages (feed name -> time)
    posts,        \* per process: PostCache.posts (a Python set of Post)
    lastFetch,    \* per process, per post id: the submission most recently fetched
    call,         \* the last completed call and what it observed
    v_seddit,     \* validate_cache_version: argument seddit
    v_file,       \* validate_cache_version: argument file
    v_result,     \* validate_cache_version: outcome, "pending" before the call
    searchCache,  \* the SearchCache object of the search program
    searchFile    \* the cache file of the search program: whether it exists, its JSON data

vars == <<now, fileExists, file, pc, subreddit, feed_ages, posts, lastFetch, call,
          v_seddit, v_file, v_result, searchCache, searchFile>>

cacheVars == <<now, fileExists, file, pc, subreddit, feed_ages, posts, lastFetch, call>>
versionVars == <<v_seddit, v_file, v_result>>
searchVars == <<searchCache, searchFile>>

----------------------------------------------------------------------------
(* Bounds *)

MaxTime == 2      \* the clock runs over 0..MaxTime
MaxFetch == 2     \* submissions returned by the remote source in one refresh
MaxVerLen == 5    \* characters of a version string handed to validate_cache_version
MaxTitleLen == 3  \* characters of the title of a post handed to the analysis
MaxCalls == 2     \* calls of SearchCache.refresh_feed in one run

Procs == {1, 2}
Ids == {"p1", "p2"}
Observations == {[title |-> "cats", score |-> 5], [title |-> "dogs", score |-> -2]}
SubNames == {<<"a", "b">>, <<"A", "b">>, <<"c", "d">>}
VerAlphabet == {"0", "1", "2", "9", ".", "x"}

----------------------------------------------------------------------------
(* Strings *)

Digits == {"0", "1", "2", "3", "4", "5", "6", "7", "8", "9"}

DigitVal(c) ==
    CASE c = "0" -> 0 [] c = "1" -> 1 [] c = "2" -> 2 [] c = "3" -> 3 [] c = "4" -> 4
      [] c = "5" -> 5 [] c = "6" -> 6 [] c = "7" -> 7 [] c = "8" -> 8 [] c = "9" -> 9

\* str.lower() on one character
LowerChar(c) ==
    CASE c = "A" -> "a" [] c = "B" -> "b" [] c = "C" -> "c" [] c = "D" -> "d"
      [] OTHER -> c

\* str.lower()
Lower(s) == [i \in DOMAIN s |-> LowerChar(s[i])]

\* str.split("."): the pieces between the dots, empty pieces included
RECURSIVE SplitDot(_)
SplitDot(s) ==
    IF \A i \in DOMAIN s : s[i] # "."
    THEN <<s>>
    ELSE LET i == CHOOSE k \in DOMAIN s : s[k] = "." /\ \A j \in 1..(k - 1) : s[j] # "."
         IN  <<SubSeq(s, 1, i - 1)>> \o SplitDot(SubSeq(s, i + 1, Len(s)))

\* int(s) succeeds: a non-empty run of decimal digits
IsInt(s) == Len(s) > 0 /\ \A i \in DOMAIN s : s[i] \in Digits

\* int(s)
RECURSIVE IntOf(_)
IntOf(s) ==
    IF Len(s) = 0 THEN 0
    ELSE 10 * IntOf(SubSeq(s, 1, Len(s) - 1)) + DigitVal(s[Len(s)])

----------------------------------------------------------------------------
(* validate_cache_version *)

\* the comparison of the Y values, as a bug would write it
FileMinorTooLow_le(file_minor, seddit_minor) == file_minor <= seddit_minor

\* PostCache.py:311: the file's Y value is too low
FileMinorTooLow(file_minor, seddit_minor) == file_minor < seddit_minor

\* a validation whose except clause answers False instead of raising
validate_cache_version_noraise(seddit, file_version) ==
    LET seddit_values == SplitDot(seddit)
        file_values == SplitDot(file_version)
    IN  IF Len(file_values) < 2 \/ ~IsInt(file_values[2])
           \/ Len(seddit_values) < 2 \/ ~IsInt(seddit_values[2])
        THEN "False"
        ELSE IF FileMinorTooLow(IntOf(file_values[2]), IntOf(seddit_values[2]))
        THEN "False"
        ELSE IF ~IsInt(file_values[1]) \/ ~IsInt(seddit_values[1])
        THEN "False"
        ELSE IF IntOf(file_values[1]) = IntOf(seddit_values[1]) THEN "True" ELSE "False"

\* PostCache.py:287-316.  "True" / "False" are the returned booleans,
\* "VersionError" is the ValueError raised by the except clause.
validate_cache_version(seddit, file_version) ==
    LET seddit_values == SplitDot(seddit)
        file_values == SplitDot(file_version)
    IN  IF Len(file_values) < 2 \/ ~IsInt(file_values[2])
           \/ Len(seddit_values) < 2 \/ ~IsInt(seddit_values[2])
        THEN "VersionError"
        ELSE IF FileMinorTooLow(IntOf(file_values[2]), IntOf(seddit_values[2]))
        THEN "False"
        ELSE IF ~IsInt(file_values[1]) \/ ~IsInt(seddit_values[1])
        THEN "VersionError"
        ELSE IF IntOf(file_values[1]) = IntOf(seddit_values[1]) THEN "True" ELSE "False"

\* the version strings of the running application the check is made against:
\* PostCache._CACHE_FORMAT_VERSION, v2's CACHE_FORMAT_VERSION, and "2.1"
CACHE_FORMAT_VERSION == <<"2", ".", "0">>
V2_CACHE_FORMAT_VERSION == <<"1", ".", "1">>
CurrentVersions == {CACHE_FORMAT_VERSION, V2_CACHE_FORMAT_VERSION, <<"2", ".", "1">>}

VersionStrings == UNION {[1..n -> VerAlphabet] : n \in 0..MaxVerLen}

\* one call of validate_cache_version(v_seddit, v_file)
Validate ==
    /\ v_result = "pending"
    /\ v_result' = validate_cache_version(v_seddit, v_file)
    /\ UNCHANGED <<v_seddit, v_file>>
    /\ UNCHANGED cacheVars
    /\ UNCHANGED searchVars

----------------------------------------------------------------------------
(* Post and the Python set of Posts (data.py) *)

\* data.py:58-67
Post(post_id, title, score) == [postID |-> post_id, title |-> title, score |-> score]

\* data.py:69-72: Post.__eq__ compares the ids only
PostEq(a, b) == a.postID = b.postID

\* set.add: an element equal to one already in the set is not inserted
SetAdd(S, p) == IF \E q \in S : PostEq(q, p) THEN S ELSE S \cup {p}

\* set.discard: the element equal to p, if any, is removed
SetDiscard(S, p) == {q \in S : ~PostEq(q, p)}

\* data.py:116-125 and its inverse at PostCache.py:98
to_dict(post) == [postID |-> post.postID, title |-> post.title, score |-> post.score]

\* a reader that does not restore the score
from_dict_noscore(post_data) == Post(post_data.postID, post_data.title, 0)

from_dict(post_data) == Post(post_data.postID, post_data.title, post_data.score)

\* what the remote source can return: praw submissions (id, title, score)
Submissions == {[id |-> i, title |-> o.title, score |-> o.score] : i \in Ids, o \in Observations}

NoPost == [id |-> "none"]

----------------------------------------------------------------------------
(* Feeds *)

Feeds == {"hot", "new", "top"}

\* PostCache.py:47-51
InitialFeedAges == [f \in Feeds |-> 0]

\* PostCache.py:52-56: hot_ttl, new_ttl, top_ttl as given to the constructor
ttl == [hot |-> 2, new |-> 1, top |-> 2]

----------------------------------------------------------------------------
(* The cache file *)

RequiredKeys == {"version", "subreddit", "feed_ages", "posts"}

\* PostCache.py:83: the keys in the order they are checked
required_keys == <<"version", "subreddit", "feed_ages", "posts">>

\* a JSON document with the given top-level keys
MakeDoc(keys, version, sub, ages, post_list) ==
    [k \in keys |->
        CASE k = "version" -> version
          [] k = "subreddit" -> sub
          [] k = "feed_ages" -> ages
          [] k = "posts" -> post_list
          [] OTHER -> "unknown-field"]

\* PostCache.py:67-72: the document written when no cache file is found
NewCacheDoc(version, sub, ages) == MakeDoc(RequiredKeys, version, sub, ages, <<>>)

NoDoc == [k \in {} |-> "unknown-field"]

\* files found on disk before the program runs
FileKeySets ==
    {RequiredKeys, RequiredKeys \cup {"extra"}} \cup {RequiredKeys \ {k} : k \in RequiredKeys}
FileVersions ==
    {<<"2", ".", "0">>, <<"2", ".", "1">>, <<"1", ".", "9">>, <<"1", ".", "1">>,
     <<"2", ".", "0", ".", "x">>, <<"2">>, <<"x", ".", "0">>}
FileSubreddits == SubNames \cup {<<"A", "B">>}
FileFeedAges ==
    {InitialFeedAges, [hot |-> 0, top |-> 0], [new |-> 1], [f \in {} |-> 0]}
FileOnePost == <<[postID |-> "p1", title |-> "cats", score |-> 5]>>
FilePostLists ==
    {<<>>,
     FileOnePost,
     <<[postID |-> "p1", title |-> "cats", score |-> 5],
       [postID |-> "p1", title |-> "dogs", score |-> -2]>>,
     <<[postID |-> "p2", title |-> "dogs", score |-> -2],
       [postID |-> "p1", title |-> "cats", score |-> 5]>>}

\* documents that differ in their header: keys, version, subreddit
HeaderFiles ==
    {MakeDoc(ks, v, s, InitialFeedAges, <<>>) :
        ks \in FileKeySets, v \in FileVersions, s \in FileSubreddits}

\* documents with a given header that differ in their feed ages and posts
BodyFiles(version, sub) ==
    {MakeDoc(RequiredKeys, version, sub, a, pl) : a \in FileFeedAges, pl \in FilePostLists}

ExternalFiles ==
    HeaderFiles \cup BodyFiles(CACHE_FORMAT_VERSION, <<"a", "b">>)
                \cup BodyFiles(V2_CACHE_FORMAT_VERSION, <<"a", "b">>)

----------------------------------------------------------------------------
(* History *)

NoCall == [op |-> "none"]

NoFetch == [i \in Ids |-> NoPost]

----------------------------------------------------------------------------
(* Construction: PostCache.__init__ *)

\* the subreddit test of a loader that compares the names as written
SubredditMismatch_exact(file_sub, sub) == file_sub # sub

\* PostCache.py:92
SubredditMismatch(file_sub, sub) == Lower(file_sub) # Lower(sub)

\* PostCache.py:84-86: some required key is missing
MissingKey(data) == \E i \in DOMAIN required_keys : required_keys[i] \notin DOMAIN data

\* PostCache.py:82-94: the error raised for the document, "none" when it is accepted.
\* All three are ValueError in the code; they are told apart by the raise statement.
LoadError(data, sub) ==
    IF MissingKey(data) THEN "SchemaError"
    ELSE IF validate_cache_version(CACHE_FORMAT_VERSION, data["version"]) # "True"
    THEN "VersionError"
    ELSE IF SubredditMismatch(data["subreddit"], sub) THEN "MismatchError"
    ELSE "none"

\* PostCache.py:97-99: the posts of the file, added to the set one by one
RECURSIVE LoadPosts(_, _)
LoadPosts(S, post_list) ==
    IF post_list = <<>> THEN S
    ELSE LoadPosts(SetAdd(S, from_dict(Head(post_list))), Tail(post_list))

\* PostCache.py:28-103: PostCache(sub, cache_file, reddit) run by process p
Load(p, sub) ==
    /\ UNCHANGED <<now, v_seddit, v_file, v_result, searchCache, searchFile>>
    /\ lastFetch' = [lastFetch EXCEPT ![p] = NoFetch]
    /\ IF ~fileExists
       THEN /\ fileExists' = TRUE
            /\ file' = NewCacheDoc(CACHE_FORMAT_VERSION, sub, InitialFeedAges)
            /\ pc' = [pc EXCEPT ![p] = "ready"]
            /\ subreddit' = [subreddit EXCEPT ![p] = sub]
            /\ feed_ages' = [feed_ages EXCEPT ![p] = InitialFeedAges]
            /\ posts' = [posts EXCEPT ![p] = {}]
            /\ call' = [op |-> "load", impl |-> "PostCache", p |-> p, sub |-> sub, ret |-> "created",
                        found |-> FALSE, data |-> NoDoc]
       ELSE LET data == file
                err == LoadError(data, sub)
            IN  /\ UNCHANGED <<fileExists, file>>
                /\ call' = [op |-> "load", impl |-> "PostCache", p |-> p, sub |-> sub,
                            ret |-> IF err = "none" THEN "loaded" ELSE err,
                            found |-> TRUE, data |-> data]
                /\ IF err # "none"
                   THEN /\ pc' = [pc EXCEPT ![p] = "failed"]
                        /\ UNCHANGED <<subreddit, feed_ages, posts>>
                   ELSE /\ pc' = [pc EXCEPT ![p] = "ready"]
                        /\ subreddit' = [subreddit EXCEPT ![p] = sub]
                        /\ feed_ages' = [feed_ages EXCEPT ![p] = data["feed_ages"]]
                        /\ posts' = [posts EXCEPT ![p] = LoadPosts({}, data["posts"])]

----------------------------------------------------------------------------
(* The environment *)

\* a cache file is put on disk before any process has opened it
ExternalWrite(doc) ==
    /\ \A p \in Procs : pc[p] = "none"
    /\ ~fileExists
    /\ fileExists' = TRUE
    /\ file' = doc
    /\ UNCHANGED <<now, pc, subreddit, feed_ages, posts, lastFetch, call>>
    /\ UNCHANGED <<versionVars, searchVars>>

\* the cache file is deleted
Delete ==
    /\ fileExists
    /\ fileExists' = FALSE
    /\ file' = NoDoc
    /\ UNCHANGED <<now, pc, subreddit, feed_ages, posts, lastFetch, call>>
    /\ UNCHANGED <<versionVars, searchVars>>

\* time passes
Tick ==
    /\ now < MaxTime
    /\ now' = now + 1
    /\ UNCHANGED <<fileExists, file, pc, subreddit, feed_ages, posts, lastFetch, call>>
    /\ UNCHANGED <<versionVars, searchVars>>

----------------------------------------------------------------------------
(* PostCache.refresh *)

\* what the remote source can return during one refresh: the submissions produced
\* by the generators of the fetched feeds, in the order they are consumed
FetchSequences == UNION {[1..k -> Submissions] : k \in 0..MaxFetch}

\* the staleness test with a non-strict comparison
NeedsRefresh_le(feed_age, feed_ttl, force, curr_time) ==
    force \/ (feed_age + feed_ttl) <= curr_time

\* PostCache.py:230-237
NeedsRefresh(feed_age, feed_ttl, force, curr_time) ==
    force \/ (feed_age + feed_ttl) < curr_time

\* a merge that only adds, as v2.py:233 does
MergeOne_addOnly(S, submission) ==
    SetAdd(S, Post(submission.id, submission.title, submission.score))

\* a merge that assigns the fetched post to the set
MergeOne_assign(S, submission) ==
    {Post(submission.id, submission.title, submission.score)}

\* PostCache.py:252-255
MergeOne(S, submission) ==
    LET new_post == Post(submission.id, submission.title, submission.score)
    IN  SetAdd(SetDiscard(S, new_post), new_post)

\* PostCache.py:251-255: every submission of the generator, in order
RECURSIVE MergeFetched(_, _)
MergeFetched(S, submissions) ==
    IF submissions = <<>> THEN S
    ELSE MergeFetched(MergeOne(S, Head(submissions)), Tail(submissions))

\* PostCache.py:258: the cache age is the time read at PostCache.py:218
RefreshStamp(curr_time, end_time) == curr_time

\* the submission of id i fetched last in the sequence, else the one known before
RECURSIVE LatestOf(_, _, _)
LatestOf(i, submissions, before) ==
    IF submissions = <<>> THEN before
    ELSE LET last == submissions[Len(submissions)]
         IN  IF last.id = i THEN last
             ELSE LatestOf(i, SubSeq(submissions, 1, Len(submissions) - 1), before)

\* PostCache.py:202-262: refresh(force) run by process p; the generators of the
\* feeds it fetches produce fetched, and the fetches take elapsed units of time
Refresh(p, force, fetched, elapsed) ==
    /\ pc[p] = "ready"
    /\ LET curr_time == now
           stale == {f \in DOMAIN feed_ages[p] :
                        NeedsRefresh(feed_ages[p][f], ttl[f], force, curr_time)}
           end_time == now + elapsed
       IN  /\ stale = {} => fetched = <<>>
           /\ elapsed > 0 => stale # {}
           /\ end_time <= MaxTime
           /\ now' = end_time
           /\ posts' = [posts EXCEPT ![p] = MergeFetched(@, fetched)]
           /\ feed_ages' = [feed_ages EXCEPT ![p] =
                               [f \in DOMAIN @ |->
                                   IF f \in stale THEN RefreshStamp(curr_time, end_time)
                                   ELSE @[f]]]
           /\ lastFetch' = [lastFetch EXCEPT ![p] =
                               [i \in Ids |-> LatestOf(i, fetched, @[i])]]
           /\ call' = [op |-> "refresh", p |-> p, force |-> force,
                       ret |-> IF stale # {} THEN "True" ELSE "False",
                       curr_time |-> curr_time,
                       old_ages |-> feed_ages[p], old_posts |-> posts[p],
                       fetched_feeds |-> stale,
                       fetched_ids |-> {fetched[k].id : k \in DOMAIN fetched},
                       refetched |-> \E j, k \in DOMAIN fetched :
                                        j < k /\ fetched[j].id = fetched[k].id
                                              /\ fetched[j] # fetched[k]]
    /\ UNCHANGED <<fileExists, file, pc, subreddit>>
    /\ UNCHANGED <<versionVars, searchVars>>

\* PostCache.py:202-262: refresh(force) run by process p while the remote
\* source fails: the generator of the feed failing raises after the feeds of
\* done, which the loop reached before it, were fetched and stamped; fetched
\* holds the submissions produced until then.  The exception leaves refresh at
\* PostCache.py:251, before the cache age of the feed is updated.
RefreshFails(p, force, fetched, failing, done) ==
    /\ pc[p] = "ready"
    /\ LET curr_time == now
           stale == {f \in DOMAIN feed_ages[p] :
                        NeedsRefresh(feed_ages[p][f], ttl[f], force, curr_time)}
       IN  /\ failing \in stale
           /\ done \subseteq stale \ {failing}
           /\ posts' = [posts EXCEPT ![p] = MergeFetched(@, fetched)]
           /\ feed_ages' = [feed_ages EXCEPT ![p] =
                               [f \in DOMAIN @ |->
                                   IF f \in done THEN RefreshStamp(curr_time, curr_time)
                                   ELSE @[f]]]
           /\ lastFetch' = [lastFetch EXCEPT ![p] =
                               [i \in Ids |-> LatestOf(i, fetched, @[i])]]
           /\ call' = [op |-> "refresh", p |-> p, force |-> force,
                       ret |-> "Exception",
                       curr_time |-> curr_time,
                       old_ages |-> feed_ages[p], old_posts |-> posts[p],
                       fetched_feeds |-> done,
                       failed_feed |-> failing,
                       fetched_ids |-> {fetched[k].id : k \in DOMAIN fetched},
                       refetched |-> \E j, k \in DOMAIN fetched :
                                        j < k /\ fetched[j].id = fetched[k].id
                                              /\ fetched[j] # fetched[k]]
    /\ UNCHANGED <<now, fileExists, file, pc, subreddit>>
    /\ UNCHANGED <<versionVars, searchVars>>

----------------------------------------------------------------------------
(* PostCache.save *)

\* the lists a Python set can be iterated into
ListsOf(S) ==
    {l \in [1..Cardinality(S) -> S] : \A i, j \in 1..Cardinality(S) : l[i] = l[j] => i = j}

\* a save that writes a fresh document, as v2.py:246-253 does
UpdatedDoc_rewrite(data, ages, post_list) ==
    MakeDoc(RequiredKeys, CACHE_FORMAT_VERSION, data["subreddit"], ages, post_list)

\* a save that keeps the posts of the file it does not hold itself
UpdatedDoc_merge(data, ages, post_list) ==
    LET kept == SelectSeq(data["posts"],
                          LAMBDA d : \A i \in DOMAIN post_list : post_list[i].postID # d.postID)
    IN  [k \in DOMAIN data \cup {"feed_ages", "posts"} |->
            IF k = "feed_ages" THEN ages
            ELSE IF k = "posts" THEN post_list \o kept
            ELSE data[k]]

\* PostCache.py:277-279: the document read from the file with two fields replaced
UpdatedDoc(data, ages, post_list) ==
    [k \in DOMAIN data \cup {"feed_ages", "posts"} |->
        IF k = "feed_ages" THEN ages
        ELSE IF k = "posts" THEN post_list
        ELSE data[k]]

\* a save that writes the file whether or not it exists
SaveMissing_create(p) ==
    /\ fileExists' = TRUE
    /\ file' = MakeDoc(RequiredKeys, CACHE_FORMAT_VERSION, subreddit[p], feed_ages[p], <<>>)
    /\ call' = [op |-> "save", p |-> p, ret |-> "None", found |-> FALSE,
                old_ages |-> feed_ages[p], old_posts |-> posts[p],
                old_file |-> file]

\* PostCache.py:270-271
SaveMissing(p) ==
    /\ UNCHANGED <<fileExists, file>>
    /\ call' = [op |-> "save", p |-> p, ret |-> "NotFoundError", found |-> FALSE,
                old_ages |-> feed_ages[p], old_posts |-> posts[p],
                old_file |-> file]

\* PostCache.py:264-284: save() run by process p
Save(p, order) ==
    /\ pc[p] = "ready"
    /\ order \in ListsOf(posts[p])
    /\ IF ~fileExists
       THEN SaveMissing(p)
       ELSE /\ fileExists' = TRUE
            /\ file' = UpdatedDoc(file, feed_ages[p],
                                  [i \in DOMAIN order |-> to_dict(order[i])])
            /\ call' = [op |-> "save", p |-> p, ret |-> "None", found |-> TRUE,
                        old_ages |-> feed_ages[p], old_posts |-> posts[p],
                        old_file |-> file]
    /\ UNCHANGED <<now, pc, subreddit, feed_ages, posts, lastFetch>>
    /\ UNCHANGED <<versionVars, searchVars>>

----------------------------------------------------------------------------
(* v2.PostCache *)

\* v2.py:158-169: the error raised for the document, "none" when it is accepted
V2LoadError(data, sub) ==
    IF MissingKey(data) THEN "SchemaError"
    ELSE IF data["version"] # V2_CACHE_FORMAT_VERSION THEN "VersionError"
    ELSE IF Lower(data["subreddit"]) # sub THEN "MismatchError"
    ELSE "none"

\* v2.py:120-174: v2.PostCache(sub, cache_file, reddit) run by process p
V2Load(p, sub) ==
    /\ UNCHANGED <<now, v_seddit, v_file, v_result, searchCache, searchFile>>
    /\ lastFetch' = [lastFetch EXCEPT ![p] = NoFetch]
    /\ IF ~fileExists
       THEN /\ fileExists' = TRUE
            /\ file' = NewCacheDoc(V2_CACHE_FORMAT_VERSION, sub, InitialFeedAges)
            /\ pc' = [pc EXCEPT ![p] = "ready"]
            /\ subreddit' = [subreddit EXCEPT ![p] = sub]
            /\ feed_ages' = [feed_ages EXCEPT ![p] = InitialFeedAges]
            /\ posts' = [posts EXCEPT ![p] = {}]
            /\ call' = [op |-> "load", impl |-> "v2", p |-> p, sub |-> sub, ret |-> "created",
                        found |-> FALSE, data |-> NoDoc]
       ELSE LET data == file
                err == V2LoadError(data, sub)
            IN  /\ UNCHANGED <<fileExists, file>>
                /\ call' = [op |-> "load", impl |-> "v2", p |-> p, sub |-> sub,
                            ret |-> IF err = "none" THEN "loaded" ELSE err,
                            found |-> TRUE, data |-> data]
                /\ IF err # "none"
                   THEN /\ pc' = [pc EXCEPT ![p] = "failed"]
                        /\ UNCHANGED <<subreddit, feed_ages, posts>>
                   ELSE /\ pc' = [pc EXCEPT ![p] = "ready"]
                        /\ subreddit' = [subreddit EXCEPT ![p] = sub]
                        /\ feed_ages' = [feed_ages EXCEPT ![p] = InitialFeedAges]
                        /\ posts' = [posts EXCEPT ![p] = LoadPosts({}, data["posts"])]

\* v2.py:232-233: every submission of the generator is added to the set
RECURSIVE V2MergeFetched(_, _)
V2MergeFetched(S, submissions) ==
    IF submissions = <<>> THEN S
    ELSE LET submission == Head(submissions)
         IN  V2MergeFetched(SetAdd(S, Post(submission.id, submission.title, submission.score)),
                            Tail(submissions))

\* the ttl values refresh is called with
V2Ttls == {1, 2}

\* v2.py:184-238: refresh(ttl, force) run by process p
V2Refresh(p, feed_ttl, force, fetched, elapsed) ==
    /\ pc[p] = "ready"
    /\ LET curr_time == now
           stale == {f \in DOMAIN feed_ages[p] : force \/ (feed_ages[p][f] + feed_ttl) < curr_time}
           end_time == now + elapsed
       IN  /\ stale = {} => fetched = <<>>
           /\ elapsed > 0 => stale # {}
           /\ end_time <= MaxTime
           /\ now' = end_time
           /\ posts' = [posts EXCEPT ![p] = V2MergeFetched(@, fetched)]
           /\ feed_ages' = [feed_ages EXCEPT ![p] =
                               [f \in DOMAIN @ |-> IF f \in stale THEN curr_time ELSE @[f]]]
           /\ lastFetch' = [lastFetch EXCEPT ![p] =
                               [i \in Ids |-> LatestOf(i, fetched, @[i])]]
           /\ call' = [op |-> "refresh", p |-> p, force |-> force,
                       ret |-> IF stale # {} THEN "True" ELSE "False",
                       curr_time |-> curr_time,
                       old_ages |-> feed_ages[p], old_posts |-> posts[p],
                       fetched_feeds |-> stale,
                       fetched_ids |-> {fetched[k].id : k \in DOMAIN fetched},
                       refetched |-> \E j, k \in DOMAIN fetched :
                                        j < k /\ fetched[j].id = fetched[k].id
                                              /\ fetched[j] # fetched[k]]
    /\ UNCHANGED <<fileExists, file, pc, subreddit>>
    /\ UNCHANGED <<versionVars, searchVars>>

\* v2.py:240-258: save() run by process p
V2Save(p, order) ==
    /\ pc[p] = "ready"
    /\ order \in ListsOf(posts[p])
    /\ IF ~fileExists
       THEN /\ UNCHANGED <<fileExists, file>>
            /\ call' = [op |-> "save", p |-> p, ret |-> "NotFoundError", found |-> FALSE,
                        old_ages |-> feed_ages[p], old_posts |-> posts[p],
                        old_file |-> file]
       ELSE /\ fileExists' = TRUE
            /\ file' = MakeDoc(RequiredKeys, V2_CACHE_FORMAT_VERSION, subreddit[p],
                               feed_ages[p], [i \in DOMAIN order |-> to_dict(order[i])])
            /\ call' = [op |-> "save", p |-> p, ret |-> "None", found |-> TRUE,
                        old_ages |-> feed_ages[p], old_posts |-> posts[p],
                        old_file |-> file]
    /\ UNCHANGED <<now, pc, subreddit, feed_ages, posts, lastFetch>>
    /\ UNCHANGED <<versionVars, searchVars>>

----------------------------------------------------------------------------
(* Regular expressions over titles.  A title is a sequence of one-character *)
(* strings; the characters used are letters and the space, so a word of the *)
(* tokenizer is a maximal run of letters.                                   *)

\* the characters \w matches
WordChars == {"a", "b", "c", "d", "A", "B", "C", "D", "_"} \cup Digits

\* \b at the gap before position i of s (i in 1..Len(s)+1)
Boundary(s, i) ==
    LET left == i > 1 /\ s[i - 1] \in WordChars
        right == i <= Len(s) /\ s[i] \in WordChars
    IN  left # right

\* the literal term matches s at position i
MatchesAt(s, i, term, ignore_case) ==
    /\ i + Len(term) - 1 <= Len(s)
    /\ LET piece == SubSeq(s, i, i + Len(term) - 1)
       IN  IF ignore_case THEN Lower(piece) = Lower(term) ELSE piece = term

\* the alternatives of \b(t1|t2|...)\b that match s at position i
AlternativesAt(s, i, terms, ignore_case) ==
    {k \in DOMAIN terms :
        /\ MatchesAt(s, i, terms[k], ignore_case)
        /\ Boundary(s, i)
        /\ Boundary(s, i + Len(terms[k]))}

\* pattern.search(s) for the pattern \b(t1|t2|...)\b
PatternSearch(s, terms, ignore_case) ==
    \E i \in 1..(Len(s) + 1) : AlternativesAt(s, i, terms, ignore_case) # {}

\* pattern.sub(label, s) from position i on: every match, leftmost first and
\* the first alternative first, is replaced by the label
RECURSIVE PatternSub(_, _, _, _, _)
PatternSub(s, i, terms, label, ignore_case) ==
    IF i > Len(s) THEN <<>>
    ELSE LET alts == AlternativesAt(s, i, terms, ignore_case)
         IN  IF alts = {}
             THEN <<s[i]>> \o PatternSub(s, i + 1, terms, label, ignore_case)
             ELSE LET k == CHOOSE k \in alts : \A j \in alts : k <= j
                  IN  IF Len(terms[k]) = 0
                      THEN label \o <<s[i]>> \o PatternSub(s, i + 1, terms, label, ignore_case)
                      ELSE label \o PatternSub(s, i + Len(terms[k]), terms, label, ignore_case)

\* re.search(pattern, s) for a pattern without special characters; the empty
\* pattern stands for None (no filter)
Contains(s, pattern) ==
    \E i \in 1..(Len(s) + 1) :
        i + Len(pattern) - 1 <= Len(s) /\ SubSeq(s, i, i + Len(pattern) - 1) = pattern

----------------------------------------------------------------------------
(* data.TermGroup and Post.term_list *)

\* self.groups[group[0]] = pattern for every group of the list: a dict keeps
\* the place of the first group with a key and the pattern of the last one
RECURSIVE GroupsDict(_, _)
GroupsDict(done, groups) ==
    IF groups = <<>> THEN done
    ELSE LET group == Head(groups)
         IN  IF \E i \in DOMAIN done : done[i][1] = group[1]
             THEN GroupsDict([i \in DOMAIN done |->
                                 IF done[i][1] = group[1] THEN group ELSE done[i]],
                             Tail(groups))
             ELSE GroupsDict(Append(done, group), Tail(groups))

\* data.py:31-42: the groups that get a pattern, in the order of self.groups
TermGroup(groups) == GroupsDict(<<>>, SelectSeq(groups, LAMBDA group : Len(group) > 0))

\* v2.py:36-45: the groups that get a pattern, in the order of self.groups
V2TermGroup(groups) == GroupsDict(<<>>, SelectSeq(groups, LAMBDA group : Len(group) > 1))

\* no term group (None)
NoTermGroup == <<>>

\* a sanitize that applies the last group first
RECURSIVE sanitize_backwards(_, _)
sanitize_backwards(term_group, title) ==
    IF term_group = <<>> THEN title
    ELSE LET group == term_group[Len(term_group)]
         IN  sanitize_backwards(SubSeq(term_group, 1, Len(term_group) - 1),
                                PatternSub(title, 1, group, group[1], TRUE))

\* data.py:51-53 and v2.py:54-56: the groups are applied one after the other
RECURSIVE sanitize(_, _)
sanitize(term_group, title) ==
    IF term_group = <<>> THEN title
    ELSE LET group == Head(term_group)
         IN  sanitize(Tail(term_group), PatternSub(title, 1, group, group[1], TRUE))

\* data.py:97: the words of a lower-cased title, maximal runs of word characters
Words(title) ==
    LET runs == {r \in (DOMAIN title) \X (DOMAIN title) :
                    /\ r[1] <= r[2]
                    /\ \A k \in r[1]..r[2] : title[k] \in WordChars
                    /\ Boundary(title, r[1])
                    /\ Boundary(title, r[2] + 1)}
    IN  {SubSeq(title, r[1], r[2]) : r \in runs}

\* data.py:90-93 and 105-109: the filters read from config; none is set
config_ignore_title_regex == <<>>
config_require_title_regex == <<>>
config_ignore_word_regex == <<>>
config_require_word_regex == <<>>

\* data.py:80-114: Post.term_list(term_group)
term_list(post, term_group) ==
    IF config_ignore_title_regex # <<>> /\ Contains(post.title, config_ignore_title_regex)
    THEN {}
    ELSE IF config_require_title_regex # <<>> /\ ~Contains(post.title, config_require_title_regex)
    THEN {}
    ELSE {word \in Words(Lower(sanitize(term_group, post.title))) :
            /\ ~(config_ignore_word_regex # <<>> /\ Contains(word, config_ignore_word_regex))
            /\ ~(config_require_word_regex # <<>> /\ ~Contains(word, config_require_word_regex))}

\* data.py:80: the parameters Post.term_list accepts besides self
term_list_parameters == {"term_group"}

----------------------------------------------------------------------------
(* PostCache.count_words and PostCache.search_terms *)

\* PostCache.py:25-26: the scoring methods
COUNT == 0
SCORE == 1

\* a contribution that is the score whatever the method
PostValue_score(post, method) == post.score

\* PostCache.py:132 and 187
PostValue(post, method) == IF method = SCORE THEN post.score ELSE 1

\* the sum of the contributions of the posts of S
RECURSIVE SumValues(_, _)
SumValues(S, method) ==
    IF S = {} THEN 0
    ELSE LET post == CHOOSE q \in S : TRUE
         IN  PostValue(post, method) + SumValues(S \ {post}, method)

\* PostCache.py:129-131: the keyword arguments count_words hands to term_list
count_words_keywords == {"ignore_title_regex", "require_title_regex"}

\* PostCache.py:126-137: the frequency of every word of every title
word_frequency(S, term_group, method) ==
    [term \in UNION {term_list(post, term_group) : post \in S} |->
        SumValues({post \in S : term \in term_list(post, term_group)}, method)]

\* PostCache.py:140-141: the keys are sanitized again; of the words that get
\* the same key, the one the dict yields last keeps its value (order lists
\* the words in the order the dict yields them)
restore(frequency, term_group, order) ==
    [key \in {sanitize(term_group, word) : word \in DOMAIN frequency} |->
        LET last == CHOOSE k \in DOMAIN order :
                        /\ sanitize(term_group, order[k]) = key
                        /\ \A j \in DOMAIN order : sanitize(term_group, order[j]) = key => j <= k
        IN  frequency[order[last]]]

\* the orders a dict with the given keys can yield them in
KeyOrders(keys) ==
    {l \in [1..Cardinality(keys) -> keys] : \A i, j \in 1..Cardinality(keys) : l[i] = l[j] => i = j}

\* PostCache.py:129-131: the call of term_list raises TypeError when term_list
\* does not accept the keywords it is given; with no post the call is not made
count_words_raises(S) == S # {} /\ ~(count_words_keywords \subseteq term_list_parameters)

\* PostCache.py:126-143: what count_words returns when it does not raise
count_words(S, term_group, method, order) ==
    IF term_group # NoTermGroup
    THEN restore(word_frequency(S, term_group, method), term_group, order)
    ELSE word_frequency(S, term_group, method)

\* PostCache.py:167-171: the pattern of every group, keyed by its first member;
\* of the groups with the same first member the last one supplied stays
search_patterns(searched_terms) ==
    [label \in {searched_terms[k][1] : k \in DOMAIN searched_terms} |->
        LET last == CHOOSE k \in DOMAIN searched_terms :
                        /\ searched_terms[k][1] = label
                        /\ \A j \in DOMAIN searched_terms : searched_terms[j][1] = label => j <= k
        IN  searched_terms[last]]

\* PostCache.py:181-184: the post is skipped
TitleSkipped(post, ignore_title_regex, require_title_regex) ==
    \/ ignore_title_regex # <<>> /\ Contains(post.title, ignore_title_regex)
    \/ require_title_regex # <<>> /\ ~Contains(post.title, require_title_regex)

\* a search that adds the contribution of a post once for every synonym found
search_terms_perSynonym(S, searched_terms, method, ignore_title_regex, require_title_regex, ignore_case) ==
    LET patterns == search_patterns(searched_terms)
    IN  [group \in DOMAIN patterns |->
            LET hits == {h \in S \X DOMAIN patterns[group] :
                            /\ ~TitleSkipped(h[1], ignore_title_regex, require_title_regex)
                            /\ PatternSearch(h[1].title, <<patterns[group][h[2]]>>, ignore_case)}
            IN  IF method = SCORE
                THEN SumValues({h[1] : h \in hits}, method)
                     + SumValues({h[1] : h \in {g \in hits : g[2] > 1}}, method)
                ELSE Cardinality(hits)]

\* PostCache.py:145-192: search_terms
search_terms(S, searched_terms, method, ignore_title_regex, require_title_regex, ignore_case) ==
    LET patterns == search_patterns(searched_terms)
    IN  [group \in DOMAIN patterns |->
            SumValues({post \in S :
                          /\ ~TitleSkipped(post, ignore_title_regex, require_title_regex)
                          /\ PatternSearch(post.title, patterns[group], ignore_case)},
                      method)]

\* count_words(term_group, method=method) called on the cache of process p
CountWords(p, term_group, method, order) ==
    /\ pc[p] = "ready"
    /\ IF count_words_raises(posts[p])
       THEN /\ order = <<>>
            /\ call' = [op |-> "count_words", p |-> p, term_group |-> term_group,
                        method |-> method, ret |-> "TypeError"]
       ELSE /\ order \in KeyOrders(DOMAIN word_frequency(posts[p], term_group, method))
            /\ call' = [op |-> "count_words", p |-> p, term_group |-> term_group,
                        method |-> method, ret |-> "dict",
                        result |-> count_words(posts[p], term_group, method, order)]
    /\ UNCHANGED <<now, fileExists, file, pc, subreddit, feed_ages, posts, lastFetch>>
    /\ UNCHANGED <<versionVars, searchVars>>

\* search_terms(searched_terms, method, ignore_title_regex, require_title_regex)
\* called on the cache of process p
SearchTerms(p, searched_terms, method, ignore_title_regex, require_title_regex) ==
    /\ pc[p] = "ready"
    /\ call' = [op |-> "search_terms", p |-> p, searched_terms |-> searched_terms,
                method |-> method, ignore_title_regex |-> ignore_title_regex,
                require_title_regex |-> require_title_regex, ret |-> "dict",
                result |-> search_terms(posts[p], searched_terms, method,
                                        ignore_title_regex, require_title_regex, TRUE)]
    /\ UNCHANGED <<now, fileExists, file, pc, subreddit, feed_ages, posts, lastFetch>>
    /\ UNCHANGED <<versionVars, searchVars>>

\* TermGroup(groups).sanitize(title) with the TermGroup of data.py
Sanitize(groups, title) ==
    /\ call' = [op |-> "sanitize", impl |-> "data", groups |-> groups, title |-> title,
                patterns |-> TermGroup(groups),
                result |-> sanitize(TermGroup(groups), title)]
    /\ UNCHANGED <<now, fileExists, file, pc, subreddit, feed_ages, posts, lastFetch>>
    /\ UNCHANGED <<versionVars, searchVars>>

\* TermGroup(groups).sanitize(title) with the TermGroup of v2.py
V2Sanitize(groups, title) ==
    /\ call' = [op |-> "sanitize", impl |-> "v2", groups |-> groups, title |-> title,
                patterns |-> V2TermGroup(groups),
                result |-> sanitize(V2TermGroup(groups), title)]
    /\ UNCHANGED <<now, fileExists, file, pc, subreddit, feed_ages, posts, lastFetch>>
    /\ UNCHANGED <<versionVars, searchVars>>

----------------------------------------------------------------------------
(* utils.sorted_dict and keys_ignored (src/utils.py, src/seddit.py).  A dict *)
(* is a function from its keys, which are strings, to its values.           *)

\* ord(c)
CharCode(c) ==
    CASE c = " " -> 32 [] c \in Digits -> 48 + DigitVal(c)
      [] c = "A" -> 65 [] c = "B" -> 66 [] c = "C" -> 67 [] c = "D" -> 68
      [] c = "_" -> 95
      [] c = "a" -> 97 [] c = "b" -> 98 [] c = "c" -> 99 [] c = "d" -> 100

\* s < t for two str values
RECURSIVE StrLess(_, _)
StrLess(s, t) ==
    IF t = <<>> THEN FALSE
    ELSE IF s = <<>> THEN TRUE
    ELSE IF s[1] # t[1] THEN CharCode(s[1]) < CharCode(t[1])
    ELSE StrLess(Tail(s), Tail(t))

\* an order on the values, and on the keys backwards
KeyLess_keyBackwards(x, y) == x[2] < y[2] \/ (x[2] = y[2] /\ StrLess(y[1], x[1]))

\* utils.py:71: the sort key (x[1], x[0]) of item x is less than that of item y
KeyLess(x, y) == x[2] < y[2] \/ (x[2] = y[2] /\ StrLess(x[1], y[1]))

\* dictionary.items()
Items(dictionary) == {<<key, dictionary[key]>> : key \in DOMAIN dictionary}

\* utils.py:63-71 and seddit.py:92-100: the items in ascending order of their
\* sort key, in descending order when reverse is set
sorted_dict(dictionary, reverse) ==
    LET items == Items(dictionary)
        n == Cardinality(items)
    IN  CHOOSE l \in [1..n -> items] :
            \A i, j \in 1..n :
                i < j => IF reverse THEN KeyLess(l[j], l[i]) ELSE KeyLess(l[i], l[j])

\* utils.py:49-60: the dictionary after keys_ignored(dictionary, remove)
keys_ignored(dictionary, remove) ==
    LET lowered == [k \in DOMAIN remove |-> Lower(remove[k])]
    IN  [key \in DOMAIN dictionary \ {lowered[k] : k \in DOMAIN lowered} |-> dictionary[key]]

\* seddit.py:78-89: the dictionary returned by keys_ignored(dictionary, remove)
seddit_keys_ignored(dictionary, remove) ==
    LET lowered == [k \in DOMAIN remove |-> Lower(remove[k])]
    IN  [key \in {key \in DOMAIN dictionary :
                     \A k \in DOMAIN lowered : Lower(key) # lowered[k]} |-> dictionary[key]]

\* sorted_dict(dictionary, reverse) is called
SortedDict(dictionary, reverse) ==
    /\ call' = [op |-> "sorted_dict", dictionary |-> dictionary, reverse |-> reverse,
                result |-> sorted_dict(dictionary, reverse)]
    /\ UNCHANGED <<now, fileExists, file, pc, subreddit, feed_ages, posts, lastFetch>>
    /\ UNCHANGED <<versionVars, searchVars>>

\* utils.keys_ignored(dictionary, remove) is called; it changes the dictionary
\* in place and returns None
KeysIgnored(dictionary, remove) ==
    /\ call' = [op |-> "keys_ignored", impl |-> "utils", dictionary |-> dictionary,
                remove |-> remove, ret |-> "None",
                result |-> keys_ignored(dictionary, remove)]
    /\ UNCHANGED <<now, fileExists, file, pc, subreddit, feed_ages, posts, lastFetch>>
    /\ UNCHANGED <<versionVars, searchVars>>

\* seddit.keys_ignored(dictionary, remove) is called; it returns a new dictionary
SedditKeysIgnored(dictionary, remove) ==
    /\ call' = [op |-> "keys_ignored", impl |-> "seddit", dictionary |-> dictionary,
                remove |-> remove, ret |-> "dict",
                result |-> seddit_keys_ignored(dictionary, remove)]
    /\ UNCHANGED <<now, fileExists, file, pc, subreddit, feed_ages, posts, lastFetch>>
    /\ UNCHANGED <<versionVars, searchVars>>

-----------------------------------------------------------------------------
(* SearchCache and its file store (src/searchCache.py).  A feed name is    *)
(* given in lower case; the posts of a feed are a list of ids; all_posts   *)
(* is a dict from the id to the score and the title.                       *)

\* searchCache.py:15
SEARCH_CACHE_FORMAT_VERSION == <<"1", ".", "0">>

\* searchCache.py:91: feed_limit = None, the unbounded limit
None == -1

\* an empty dict
EmptyDict == [k \in {} |-> 0]

\* searchCache.py:19-44: SearchCache(subreddit), constructed at the time given
SearchCache(sub, time) ==
    [subreddit |-> sub,
     all_posts |-> EmptyDict,
     feeds |-> [f \in Feeds |-> [time |-> time, none_feed_limit |-> FALSE, posts |-> <<>>]]]

\* searchCache.py:46-69: json.dump and json.load give the same dict back
SearchCache_to_dict(cache) ==
    [subreddit |-> cache.subreddit, all_posts |-> cache.all_posts, feeds |-> cache.feeds]

\* a staleness test that does not count the cached items
refresh_needed_noCount(feed, feed_ttl, feed_limit, force, curr_time) ==
    \/ force
    \/ (feed.time + feed_ttl) < curr_time
    \/ feed_limit = None /\ ~feed.none_feed_limit

\* searchCache.py:112-123: the criteria of refresh_feed
refresh_needed(feed, feed_ttl, feed_limit, force, curr_time) ==
    \/ force
    \/ (feed.time + feed_ttl) < curr_time
    \/ feed_limit = None /\ ~feed.none_feed_limit
    \/ ~feed.none_feed_limit /\ feed_limit # None /\ Len(feed.posts) < feed_limit

\* searchCache.py:127-135: the generator yields the posts of the remote feed,
\* at most feed_limit of them
Generated(remote, feed_limit) ==
    IF feed_limit = None \/ Len(remote) <= feed_limit
    THEN remote
    ELSE SubSeq(remote, 1, feed_limit)

\* searchCache.py:157-168: dict.update with the post of every fetched id; of
\* two fetched posts with the same id the later one stays
log_posts_all(all_posts, post_list) ==
    [i \in DOMAIN all_posts \cup {post_list[k].id : k \in DOMAIN post_list} |->
        IF \E k \in DOMAIN post_list : post_list[k].id = i
        THEN LET last == CHOOSE k \in DOMAIN post_list :
                            /\ post_list[k].id = i
                            /\ \A j \in DOMAIN post_list : post_list[j].id = i => j <= k
             IN  [Score |-> post_list[last].score, Title |-> post_list[last].title]
        ELSE all_posts[i]]

\* searchCache.py:150-168 and 137-138: the feed after the posts were logged
log_posts_feed(post_list, feed_limit, curr_time) ==
    [time |-> curr_time,
     none_feed_limit |-> (feed_limit = None),
     posts |-> [k \in DOMAIN post_list |-> post_list[k].id]]

\* searchCache.py:88-140: refresh_feed(reddit, feed_name, ttl, feed_limit, force)
\* while the remote feed holds the posts of remote; the record of the call
\* counts the calls made and names the call before it
RefreshFeed(feed_name, feed_ttl, feed_limit, force, remote) ==
    LET calls_made == IF call.op = "refresh_feed" THEN call.n ELSE 0
        previous_call ==
            IF call.op = "refresh_feed"
            THEN [ret |-> call.ret, feed_name |-> call.feed_name,
                  feed_limit |-> call.feed_limit, fetched |-> call.fetched]
            ELSE [ret |-> "none"]
        feed == searchCache.feeds[feed_name]
        curr_time == now
        posts_fetched == Generated(remote, feed_limit)
        record == [op |-> "refresh_feed", n |-> calls_made + 1, feed_name |-> feed_name,
                   ttl |-> feed_ttl, feed_limit |-> feed_limit, force |-> force,
                   at |-> curr_time, feed_before |-> feed,
                   all_posts_before |-> searchCache.all_posts,
                   previous |-> previous_call]
    IN
    /\ calls_made < MaxCalls
    /\ IF refresh_needed(feed, feed_ttl, feed_limit, force, curr_time)
       THEN /\ searchCache' =
                  [searchCache EXCEPT
                      !.feeds[feed_name] = log_posts_feed(posts_fetched, feed_limit, curr_time),
                      !.all_posts = log_posts_all(searchCache.all_posts, posts_fetched)]
            /\ call' = record @@ [ret |-> "True", fetched |-> posts_fetched]
       ELSE /\ remote = <<>>
            /\ searchCache' = searchCache
            /\ call' = record @@ [ret |-> "False", fetched |-> <<>>]
    /\ UNCHANGED <<now, fileExists, file, pc, subreddit, feed_ages, posts, lastFetch>>
    /\ UNCHANGED <<versionVars, searchFile>>

\* no file at file_path
NoSearchFile == [exists |-> FALSE]

\* searchCache.py:207-232: save_to_cache(file_path, cache)
save_to_cache(stored, cache) ==
    LET data == IF stored.exists
                THEN stored
                ELSE [exists |-> TRUE, version |-> SEARCH_CACHE_FORMAT_VERSION,
                      subreddits |-> EmptyDict]
    IN  [data EXCEPT !.subreddits =
            [name \in DOMAIN data.subreddits \cup {cache.subreddit} |->
                IF name = cache.subreddit
                THEN SearchCache_to_dict(cache)
                ELSE data.subreddits[name]]]

\* searchCache.py:171-204: what read_from_cache(file_path, sub_name) does:
\* "empty" for a new SearchCache, "KeyError" at line 200, "loaded" otherwise
read_outcome(stored, sub_name) ==
    IF ~stored.exists THEN "empty"
    ELSE IF stored.version # SEARCH_CACHE_FORMAT_VERSION THEN "empty"
    ELSE IF Lower(sub_name) \notin DOMAIN stored.subreddits THEN "empty"
    ELSE IF sub_name \notin DOMAIN stored.subreddits THEN "KeyError"
    ELSE "loaded"

\* searchCache.py:171-204: the SearchCache that read_from_cache returns
read_from_cache(stored, sub_name, curr_time) ==
    IF read_outcome(stored, sub_name) = "loaded"
    THEN [subreddit |-> sub_name,
          all_posts |-> stored.subreddits[sub_name].all_posts,
          feeds |-> stored.subreddits[sub_name].feeds]
    ELSE SearchCache(sub_name, curr_time)

\* cache.save(file_path)
SaveToCache ==
    /\ searchFile' = save_to_cache(searchFile, searchCache)
    /\ call' = [op |-> "save_to_cache", subreddit |-> searchCache.subreddit,
                all_posts |-> searchCache.all_posts, feeds |-> searchCache.feeds]
    /\ UNCHANGED <<now, fileExists, file, pc, subreddit, feed_ages, posts, lastFetch>>
    /\ UNCHANGED <<versionVars, searchCache>>

\* cache = read_from_cache(file_path, sub_name); the cache stays the one it
\* was when the call raises
ReadFromCache(sub_name) ==
    /\ LET outcome == read_outcome(searchFile, sub_name)
       IN  /\ searchCache' = IF outcome = "KeyError"
                             THEN searchCache
                             ELSE read_from_cache(searchFile, sub_name, now)
           /\ call' = [op |-> "read_from_cache", sub_name |-> sub_name, ret |-> outcome,
                       saved |-> IF call.op = "save_to_cache" THEN call ELSE NoCall]
    /\ UNCHANGED <<now, fileExists, file, pc, subreddit, feed_ages, posts, lastFetch>>
    /\ UNCHANGED <<versionVars, searchFile>>

\* a file written by a program of another cache format version
SearchExternalWrite ==
    /\ searchFile' = [exists |-> TRUE, version |-> <<"0", ".", "9">>, subreddits |-> EmptyDict]
    /\ UNCHANGED cacheVars
    /\ UNCHANGED <<versionVars, searchCache>>

----------------------------------------------------------------------------
(* The system of PostCache processes sharing one cache file *)

Init ==
    /\ now = 0
    /\ fileExists = FALSE
    /\ file = NoDoc
    /\ pc = [p \in Procs |-> "none"]
    /\ subreddit = [p \in Procs |-> <<>>]
    /\ feed_ages = [p \in Procs |-> InitialFeedAges]
    /\ posts = [p \in Procs |-> {}]
    /\ lastFetch = [p \in Procs |-> NoFetch]
    /\ call = NoCall
    /\ v_seddit = CACHE_FORMAT_VERSION
    /\ v_file = CACHE_FORMAT_VERSION
    /\ v_result = "pending"
    /\ searchCache = SearchCache(<<"a", "b">>, 0)
    /\ searchFile = NoSearchFile

Next ==
    \/ Tick
    \/ Delete
    \/ \E doc \in ExternalFiles : ExternalWrite(doc)
    \/ \E p \in Procs, sub \in SubNames : Load(p, sub)
    \/ \E p \in Procs, force \in BOOLEAN, fetched \in FetchSequences, elapsed \in 0..1 :
          Refresh(p, force, fetched, elapsed)
    \/ \E p \in Procs : \E order \in ListsOf(posts[p]) : Save(p, order)

Spec == Init /\ [][Next]_vars

\* validate_cache_version applied to every version string within the bound
InitVersion ==
    /\ now = 0
    /\ fileExists = FALSE
    /\ file = NoDoc
    /\ pc = [p \in Procs |-> "none"]
    /\ subreddit = [p \in Procs |-> <<>>]
    /\ feed_ages = [p \in Procs |-> InitialFeedAges]
    /\ posts = [p \in Procs |-> {}]
    /\ lastFetch = [p \in Procs |-> NoFetch]
    /\ call = NoCall
    /\ v_seddit \in CurrentVersions
    /\ v_file \in VersionStrings
    /\ v_result = "pending"
    /\ searchCache = SearchCache(<<"a", "b">>, 0)
    /\ searchFile = NoSearchFile

NextVersion == Validate

SpecVersion == InitVersion /\ [][NextVersion]_vars

\* Spec with one process that loads a well-formed cache file, or creates it,
\* and then refreshes as time passes
NextRefresh ==
    \/ Tick
    \/ \E ages \in FileFeedAges, post_list \in {<<>>, FileOnePost} :
          ExternalWrite(MakeDoc(RequiredKeys, CACHE_FORMAT_VERSION, <<"a", "b">>, ages, post_list))
    \/ pc[1] = "none" /\ Load(1, <<"a", "b">>)
    \/ \E force \in BOOLEAN, fetched \in FetchSequences, elapsed \in 0..1 :
          Refresh(1, force, fetched, elapsed)

SpecRefresh == Init /\ [][NextRefresh]_vars

\* Spec with one process, run again and again, that loads and saves cache files
\* of every kind, the file being deleted at any time
NextFiles ==
    \/ Delete
    \/ \E doc \in ExternalFiles : ExternalWrite(doc)
    \/ \E sub \in SubNames : Load(1, sub)
    \/ \E order \in ListsOf(posts[1]) : Save(1, order)

SpecFiles == Init /\ [][NextFiles]_vars

\* v2.PostCache processes on a cache file that only they write
NextV2Create ==
    \/ Delete
    \/ \E p \in Procs, sub \in SubNames : V2Load(p, sub)
    \/ \E p \in Procs : \E order \in ListsOf(posts[p]) : V2Save(p, order)

SpecV2Create == Init /\ [][NextV2Create]_vars

\* PostCache processes on a cache file that only they write
NextCreate ==
    \/ Delete
    \/ \E p \in Procs, sub \in SubNames : Load(p, sub)
    \/ \E p \in Procs : \E order \in ListsOf(posts[p]) : Save(p, order)

SpecCreate == Init /\ [][NextCreate]_vars

\* one process that loads with v2.PostCache and then refreshes as time passes
NextV2Refresh ==
    \/ Tick
    \/ \E post_list \in {<<>>, FileOnePost} :
          ExternalWrite(MakeDoc(RequiredKeys, V2_CACHE_FORMAT_VERSION, <<"a", "b">>,
                                InitialFeedAges, post_list))
    \/ pc[1] = "none" /\ V2Load(1, <<"a", "b">>)
    \/ \E feed_ttl \in V2Ttls, force \in BOOLEAN, fetched \in FetchSequences, elapsed \in 0..1 :
          V2Refresh(1, feed_ttl, force, fetched, elapsed)

SpecV2Refresh == Init /\ [][NextV2Refresh]_vars

\* cache files left by a newer writer: a later MINOR version, the subreddit in
\* upper case and a top-level key this reader does not know
NewerWriterFiles ==
    {MakeDoc(RequiredKeys \cup {"extra"}, <<"2", ".", "1">>, <<"A", "B">>, InitialFeedAges, pl) :
        pl \in {<<>>, FileOnePost}}

\* the remote source returns at most one submission during a refresh
OneFetch == {fetched \in FetchSequences : Len(fetched) <= 1}

\* one process, run again and again, that loads the file (or creates it),
\* refreshes and saves
NextSession ==
    \/ \E doc \in NewerWriterFiles : ExternalWrite(doc)
    \/ Load(1, <<"a", "b">>)
    \/ \E fetched \in OneFetch, elapsed \in 0..1 : Refresh(1, TRUE, fetched, elapsed)
    \/ \E order \in ListsOf(posts[1]) : Save(1, order)

SpecSession == Init /\ [][NextSession]_vars

\* two processes that each load the cache file once (the first creates it),
\* refresh and save; every refresh takes one unit of time
NextRace ==
    \/ \E p \in Procs : pc[p] = "none" /\ Load(p, <<"a", "b">>)
    \/ \E p \in Procs, fetched \in OneFetch : Refresh(p, TRUE, fetched, 1)
    \/ \E p \in Procs : \E order \in ListsOf(posts[p]) : Save(p, order)

SpecRace == Init /\ [][NextRace]_vars

\* the inputs of the analysis: titles, scores, post sets, terms and filters
TitleChars == {"a", "A", "b", " "}
Titles == UNION {[1..n -> TitleChars] : n \in 0..MaxTitleLen}
Scores == {3, -2}
SecondPosts == {Post("p2", <<"a">>, -2), Post("p2", <<"b", " ", "A">>, 3)}
AnalysisPostSets ==
    {{}} \cup {{Post("p1", t, sc)} : t \in Titles, sc \in Scores}
         \cup {{Post("p1", t, sc), q} : t \in Titles, sc \in Scores, q \in SecondPosts}
Terms == {<<"a">>, <<"b">>}
TermLists == {<<t>> : t \in Terms} \cup {<<x[1], x[2]>> : x \in {y \in Terms \X Terms : y[1] # y[2]}}
SearchedTermLists ==
    {<<g>> : g \in TermLists} \cup {<<g, <<<<"d">>>>>> : g \in TermLists}
TitleFilters == {<<<<>>, <<>>>>, <<<<"b">>, <<>>>>, <<<<>>, <<"A">>>>}
TermGroups == {NoTermGroup, TermGroup(<<<<<<"a">>, <<"b">>>>>>)}

\* a cache that holds any of the post sets
InitAnalysis ==
    /\ now = 0
    /\ fileExists = FALSE
    /\ file = NoDoc
    /\ pc = [p \in Procs |-> IF p = 1 THEN "ready" ELSE "none"]
    /\ subreddit = [p \in Procs |-> IF p = 1 THEN <<"a", "b">> ELSE <<>>]
    /\ feed_ages = [p \in Procs |-> InitialFeedAges]
    /\ posts \in {[p \in Procs |-> IF p = 1 THEN S ELSE {}] : S \in AnalysisPostSets}
    /\ lastFetch = [p \in Procs |-> NoFetch]
    /\ call = NoCall
    /\ v_seddit = CACHE_FORMAT_VERSION
    /\ v_file = CACHE_FORMAT_VERSION
    /\ v_result = "pending"
    /\ searchCache = SearchCache(<<"a", "b">>, 0)
    /\ searchFile = NoSearchFile

\* one call of count_words or of search_terms on the cache
NextAnalysis ==
    \/ /\ call = NoCall
       /\ \E term_group \in TermGroups, method \in {COUNT, SCORE} :
             \E order \in {<<>>} \cup KeyOrders(DOMAIN word_frequency(posts[1], term_group, method)) :
                CountWords(1, term_group, method, order)
    \/ /\ call = NoCall
       /\ \E searched_terms \in SearchedTermLists, method \in {COUNT, SCORE}, filter \in TitleFilters :
             SearchTerms(1, searched_terms, method, filter[1], filter[2])

SpecAnalysis == InitAnalysis /\ [][NextAnalysis]_vars

\* the lists of synonym groups handed to TermGroup: one or two groups of no,
\* one or two terms
GroupLists ==
    LET groups == TermLists \cup {<<>>}
    IN  {<<g>> : g \in groups} \cup {<<x[1], x[2]>> : x \in groups \X groups}

\* one call of sanitize on a TermGroup built from a list of groups
NextTerms ==
    \/ call = NoCall /\ \E groups \in GroupLists, title \in Titles : Sanitize(groups, title)
    \/ call = NoCall /\ \E groups \in GroupLists, title \in Titles : V2Sanitize(groups, title)

SpecTerms == Init /\ [][NextTerms]_vars

\* the inputs of the dictionary functions
DictKeys == {<<"a">>, <<"A">>, <<"b">>, <<"a", "b">>}
DictValues == {1, 3}
Dictionaries == UNION {[keys -> DictValues] : keys \in SUBSET DictKeys}
RemoveLists == {<<>>, <<<<"a">>>>, <<<<"A">>>>, <<<<"B">>, <<"a", "B">>>>}

\* one call of sorted_dict or of keys_ignored
NextUtils ==
    \/ call = NoCall /\ \E dictionary \in Dictionaries, reverse \in BOOLEAN :
                            SortedDict(dictionary, reverse)
    \/ call = NoCall /\ \E dictionary \in Dictionaries, remove \in RemoveLists :
                            KeysIgnored(dictionary, remove)
    \/ call = NoCall /\ \E dictionary \in Dictionaries, remove \in RemoveLists :
                            SedditKeysIgnored(dictionary, remove)

SpecUtils == Init /\ [][NextUtils]_vars

\* one process that loads the file and refreshes it: the remote source fails
\* during the first refresh, and the refresh is tried again
NextRemoteFailure ==
    \/ Tick
    \/ /\ pc[1] = "none"
       /\ \E ages \in FileFeedAges, post_list \in {<<>>, FileOnePost} :
             ExternalWrite(MakeDoc(RequiredKeys, CACHE_FORMAT_VERSION, <<"a", "b">>, ages, post_list))
    \/ pc[1] = "none" /\ Load(1, <<"a", "b">>)
    \/ /\ call.op = "load"
       /\ \E force \in BOOLEAN, fetched \in OneFetch, failing \in Feeds, done \in SUBSET Feeds :
             RefreshFails(1, force, fetched, failing, done)
    \/ /\ call.op = "refresh" /\ call.ret = "Exception"
       /\ \E fetched \in OneFetch : Refresh(1, call.force, fetched, 0)

SpecRemoteFailure == Init /\ [][NextRemoteFailure]_vars

\* two processes, each the cache of a subreddit of its own choice, that load
\* the cache file once (creating it when it is missing), refresh and save,
\* while the file is deleted at any time
NextMix ==
    \/ Delete
    \/ \E p \in Procs, sub \in {<<"a", "b">>, <<"c", "d">>} : pc[p] = "none" /\ Load(p, sub)
    \/ \E p \in Procs, fetched \in OneFetch : Refresh(p, TRUE, fetched, 1)
    \/ \E p \in Procs : \E order \in ListsOf(posts[p]) : Save(p, order)

SpecMix == Init /\ [][NextMix]_vars

\* seddit2.py:110-133: a run of main starts when none is under way: the term
\* group is built, then the cache is loaded; v2.TermGroup(None) raises
\* TypeError when no term group file is named
MainLoad(term_group_path, sub) ==
    /\ \/ call = NoCall
       \/ call.op = "main"
       \/ call.op = "load" /\ call.ret \notin {"loaded", "created"}
    /\ IF term_group_path = "None"
       THEN /\ call' = [op |-> "main", ret |-> "TypeError", after |-> "none"]
            /\ UNCHANGED <<now, fileExists, file, pc, subreddit, feed_ages, posts, lastFetch>>
            /\ UNCHANGED <<versionVars, searchVars>>
       ELSE Load(1, sub)

\* seddit2.py:136: cache.refresh(force=force)
MainRefresh(force, fetched) ==
    /\ call.op = "load" /\ call.ret \in {"loaded", "created"}
    /\ Refresh(1, force, fetched, 0)

\* a run that saves the cache whatever refresh returned
MainSave_always(p, order) ==
    call.op = "refresh" /\ Save(p, order)

\* seddit2.py:136-137: cache.save() when refresh returned True
MainSave(p, order) ==
    call.op = "refresh" /\ call.ret = "True" /\ Save(p, order)

\* seddit2.py:149: PostCache has no method count_terms, the run ends with
\* AttributeError
MainCountTerms ==
    /\ \/ call.op = "refresh" /\ call.ret = "False"
       \/ call.op = "save"
    /\ call' = [op |-> "main", ret |-> "AttributeError", after |-> call.op]
    /\ UNCHANGED <<now, fileExists, file, pc, subreddit, feed_ages, posts, lastFetch>>
    /\ UNCHANGED <<versionVars, searchVars>>

\* main is run again and again on a cache file while time passes
NextMain ==
    \/ Tick
    \/ \E ages \in FileFeedAges, post_list \in FilePostLists :
          ExternalWrite(MakeDoc(RequiredKeys, CACHE_FORMAT_VERSION, <<"a", "b">>, ages, post_list))
    \/ \E term_group_path \in {"None", "terms.csv"} : MainLoad(term_group_path, <<"a", "b">>)
    \/ \E force \in BOOLEAN, fetched \in OneFetch : MainRefresh(force, fetched)
    \/ \E order \in ListsOf(posts[1]) : MainSave(1, order)
    \/ MainCountTerms

SpecMain == Init /\ [][NextMain]_vars

\* the remote feeds: the feed holds none, some or all of two posts, the
\* newest first
RemoteFeeds ==
    LET listing == <<[id |-> "p1", title |-> "cats", score |-> 5],
                     [id |-> "p2", title |-> "dogs", score |-> -2]>>
    IN  {SubSeq(listing, 1, k) : k \in 0..Len(listing)}

\* one SearchCache whose feeds are refreshed again and again while time passes
NextSearch ==
    \/ Tick
    \/ \E feed_name \in {"hot", "new"}, feed_limit \in {None} \cup (1..MaxFetch),
          force \in BOOLEAN, remote \in RemoteFeeds :
            RefreshFeed(feed_name, 1, feed_limit, force, remote)

SpecSearch == Init /\ [][NextSearch]_vars

\* a SearchCache of any of the subreddit names
InitSearchFile ==
    /\ now = 0
    /\ fileExists = FALSE
    /\ file = NoDoc
    /\ pc = [p \in Procs |-> "none"]
    /\ subreddit = [p \in Procs |-> <<>>]
    /\ feed_ages = [p \in Procs |-> InitialFeedAges]
    /\ posts = [p \in Procs |-> {}]
    /\ lastFetch = [p \in Procs |-> NoFetch]
    /\ call = NoCall
    /\ v_seddit = CACHE_FORMAT_VERSION
    /\ v_file = CACHE_FORMAT_VERSION
    /\ v_result = "pending"
    /\ searchCache \in {SearchCache(sub, 0) : sub \in SubNames}
    /\ searchFile = NoSearchFile

\* the search program: the cache is read from the file, refreshed and saved
NextSearchFile ==
    \/ SearchExternalWrite
    \/ \E sub_name \in SubNames : ReadFromCache(sub_name)
    \/ \E remote \in {r \in RemoteFeeds : Len(r) <= 1} : RefreshFeed("hot", 1, None, TRUE, remote)
    \/ SaveToCache

SpecSearchFile == InitSearchFile /\ [][NextSearchFile]_vars

----------------------------------------------------------------------------
(* Claims about PostCache.refresh, checked under SpecRefresh *)

\* the call recorded last is a refresh that returned
Refreshed == call.op = "refresh"

\* C1: the post set holds at most one Post per id, and for every id that a fetch
\* has returned the stored title and score are those of the most recent fetch
\* of that id.
C1_OnePostPerIdLatestFetch ==
    \A p \in Procs :
        /\ \A q1, q2 \in posts[p] : q1.postID = q2.postID => q1 = q2
        /\ \A i \in Ids :
              lastFetch[p][i] # NoPost =>
                  Post(i, lastFetch[p][i].title, lastFetch[p][i].score) \in posts[p]

\* C1 witness: one refresh fetched the same id twice with different data, for an
\* id that was cached before, and the cached entry was replaced.
C1_Witness ==
    /\ Refreshed
    /\ call.refetched
    /\ \E q \in call.old_posts : q.postID \in call.fetched_ids /\ q \notin posts[call.p]

\* C2: a refresh without force fetches a feed, and sets its lastRefresh to the
\* time of the call, if and only if lastRefresh + ttl < now; every other feed is
\* not fetched and keeps its lastRefresh.
C2_StaleFeedsOnly ==
    (Refreshed /\ ~call.force) =>
        \A f \in DOMAIN call.old_ages :
            /\ f \in call.fetched_feeds <=> call.old_ages[f] + ttl[f] < call.curr_time
            /\ f \in call.fetched_feeds => feed_ages[call.p][f] = call.curr_time
            /\ f \notin call.fetched_feeds => feed_ages[call.p][f] = call.old_ages[f]

\* C2 witness: in one call without force a feed with lastRefresh = now - ttl - 1
\* was fetched, a feed with lastRefresh + ttl = now was not.
C2_Witness ==
    /\ Refreshed /\ ~call.force
    /\ \E f, g \in DOMAIN call.old_ages :
          /\ f \in call.fetched_feeds
          /\ call.old_ages[f] = call.curr_time - ttl[f] - 1
          /\ g \notin call.fetched_feeds
          /\ call.old_ages[g] + ttl[g] = call.curr_time

\* C2 witness of the other boundary: a feed with lastRefresh = now is not fetched
C2_WitnessFresh ==
    /\ Refreshed /\ ~call.force
    /\ \E g \in DOMAIN call.old_ages :
          g \notin call.fetched_feeds /\ call.old_ages[g] = call.curr_time /\ call.curr_time > 0

\* C3 as claimed: refresh returns false exactly when force is false and no feed
\* is stale, and then nothing has changed; it returns true when a feed was fetched.
C3_FalseIffNothingStale ==
    Refreshed =>
        /\ call.ret = "False" <=>
              (~call.force /\ \A f \in DOMAIN call.old_ages :
                                 ~(call.old_ages[f] + ttl[f] < call.curr_time))
        /\ call.ret = "False" =>
              /\ posts[call.p] = call.old_posts
              /\ feed_ages[call.p] = call.old_ages
              /\ call.fetched_feeds = {}
              /\ call.fetched_ids = {}
        /\ call.fetched_feeds # {} => call.ret = "True"

\* C4 as claimed: with force, refresh fetches every feed and returns true, and
\* every feed it refreshed has lastRefresh equal to the time read at the start.
C4_ForceFetchesEveryFeed ==
    (Refreshed /\ call.force) =>
        /\ call.fetched_feeds = Feeds
        /\ call.ret = "True"
        /\ \A f \in call.fetched_feeds : feed_ages[call.p][f] = call.curr_time

\* C5: a refresh never removes an id from the post set, and a post whose id no
\* fetch of the call returned keeps its title and score.
C5_MonotonicallyAdditive ==
    Refreshed =>
        /\ \A q \in call.old_posts : \E r \in posts[call.p] : r.postID = q.postID
        /\ \A q \in call.old_posts : q.postID \notin call.fetched_ids => q \in posts[call.p]

\* C5 witness: a refresh replaced one cached post and left another, whose id it
\* did not fetch, as it was.
C5_Witness ==
    /\ Refreshed
    /\ \E q, r \in call.old_posts :
          /\ q.postID \notin call.fetched_ids /\ q \in posts[call.p]
          /\ r.postID \in call.fetched_ids /\ r \notin posts[call.p]

----------------------------------------------------------------------------
(* Claims about the version check, checked under SpecVersion *)

\* MAJOR and MINOR of a version string that has them
HasMajorMinor(s) ==
    /\ Len(SplitDot(s)) >= 2
    /\ IsInt(SplitDot(s)[1])
    /\ IsInt(SplitDot(s)[2])
Major(s) == IntOf(SplitDot(s)[1])
Minor(s) == IntOf(SplitDot(s)[2])

\* the compatibility policy of the specification
Compatible(current, file_version) ==
    /\ HasMajorMinor(file_version)
    /\ Major(file_version) = Major(current)
    /\ Minor(file_version) >= Minor(current)

Validated == v_result # "pending"

\* C8: validate_cache_version returns true if and only if file.MAJOR = current.MAJOR
\* and file.MINOR >= current.MINOR, whatever PATCH is; (2.0, 2.0) and (2.0, 2.1)
\* are compatible, (2.0, 1.9) and (2.1, 2.0) are not.
C8_CompatibleIff ==
    Validated =>
        /\ v_result = "True" <=> Compatible(v_seddit, v_file)
        /\ (v_seddit = <<"2", ".", "0">> /\ v_file = <<"2", ".", "0">>) => v_result = "True"
        /\ (v_seddit = <<"2", ".", "0">> /\ v_file = <<"2", ".", "1">>) => v_result = "True"
        /\ (v_seddit = <<"2", ".", "0">> /\ v_file = <<"1", ".", "9">>) => v_result = "False"
        /\ (v_seddit = <<"2", ".", "1">> /\ v_file = <<"2", ".", "0">>) => v_result = "False"

\* C8 witness: a file of a newer minor version, with a PATCH component, is accepted
C8_Witness ==
    /\ v_result = "True"
    /\ Minor(v_file) > Minor(v_seddit)
    /\ Len(SplitDot(v_file)) = 3

\* a version string that is not MAJOR.MINOR.PATCH with three numeric components
Malformed(s) ==
    \/ Len(SplitDot(s)) < 3
    \/ \E i \in 1..3 : ~IsInt(SplitDot(s)[i])

----------------------------------------------------------------------------
(* Claims about loading and saving, checked under SpecFiles and SpecV2Create *)

\* two names are equal up to the case of their letters
SameLetter(a, b) ==
    \/ a = b
    \/ <<a, b>> \in {<<"a", "A">>, <<"A", "a">>, <<"b", "B">>, <<"B", "b">>,
                      <<"c", "C">>, <<"C", "c">>, <<"d", "D">>, <<"D", "d">>}
EqualIgnoringCase(s, t) ==
    Len(s) = Len(t) /\ \A i \in 1..Len(s) : SameLetter(s[i], t[i])

\* the call recorded last is a load that found a file
LoadedExisting == call.op = "load" /\ call.found

\* C6: loading an existing file fails with a schema error if a required key is
\* missing, otherwise with a version error if the version is incompatible,
\* otherwise with a mismatch error if the subreddits differ ignoring case, and
\* succeeds otherwise.
C6_LoadValidation ==
    LoadedExisting =>
        IF ~(RequiredKeys \subseteq DOMAIN call.data)
        THEN call.ret = "SchemaError" /\ pc[call.p] = "failed"
        ELSE IF ~Compatible(CACHE_FORMAT_VERSION, call.data["version"])
        THEN call.ret = "VersionError" /\ pc[call.p] = "failed"
        ELSE IF ~EqualIgnoringCase(call.data["subreddit"], call.sub)
        THEN call.ret = "MismatchError" /\ pc[call.p] = "failed"
        ELSE call.ret = "loaded" /\ pc[call.p] = "ready"

\* C6 witness: a file whose subreddit differs from the requested one only in
\* letter case was loaded.
C6_Witness ==
    /\ LoadedExisting
    /\ call.ret = "loaded"
    /\ call.data["subreddit"] # call.sub

\* the format version an implementation stamps new files with
FormatVersionOf(impl) ==
    IF impl = "v2" THEN V2_CACHE_FORMAT_VERSION ELSE CACHE_FORMAT_VERSION

\* C7: a load that finds no file creates one stamped with the current format
\* version, the requested subreddit, feed ages 0 and no posts, and returns an
\* empty cache; a later load of that file with the same subreddit is accepted.
C7_CreatedFileReloads ==
    call.op = "load" =>
        LET fresh == NewCacheDoc(FormatVersionOf(call.impl), call.sub, InitialFeedAges)
        IN  /\ ~call.found =>
                  /\ call.ret = "created"
                  /\ posts[call.p] = {}
                  /\ fileExists => file = fresh
            /\ (call.found /\ RequiredKeys = DOMAIN call.data /\ call.data = fresh) =>
                  call.ret = "loaded"

\* C10: a save that finds no file fails with a not-found error, leaves no file
\* behind and leaves the posts and feed ages in memory as they were.
C10_SaveNeverCreates ==
    (call.op = "save" /\ ~call.found) =>
        /\ call.ret = "NotFoundError"
        /\ ~fileExists
        /\ posts[call.p] = call.old_posts
        /\ feed_ages[call.p] = call.old_ages

\* C10 witness: a cache holding posts was saved after its file had been deleted
C10_Witness ==
    /\ call.op = "save"
    /\ ~call.found
    /\ call.ret = "NotFoundError"
    /\ posts[call.p] # {}

----------------------------------------------------------------------------
(* Claims about PostCache.save and the file, checked under SpecSession *)

\* the call recorded last is a save that wrote the file
Saved == call.op = "save" /\ call.ret = "None"

\* C11: a save changes only the feed_ages and posts fields of the document on
\* disk: every other top-level key the file had before the save, version,
\* subreddit and keys unknown to this reader included, is in the file after
\* the save with the same value.
C11_SaveFrame ==
    Saved =>
        /\ fileExists
        /\ DOMAIN file = DOMAIN call.old_file \cup {"feed_ages", "posts"}
        /\ \A k \in DOMAIN call.old_file \ {"feed_ages", "posts"} : file[k] = call.old_file[k]

\* C11 witness: a save replaced the posts and the feed ages of a file that
\* carries an unknown key, a newer version and another spelling of the subreddit.
C11_Witness ==
    /\ Saved
    /\ "extra" \in DOMAIN call.old_file
    /\ call.old_file["version"] # CACHE_FORMAT_VERSION
    /\ call.old_file["subreddit"] # subreddit[call.p]
    /\ file["posts"] # call.old_file["posts"]
    /\ file["feed_ages"] # call.old_file["feed_ages"]

\* C12: a load that follows a save of the same file, with the same subreddit,
\* yields the post set (id, title and score of every post) and the feed-age
\* map that were saved.
C12_RoundTrip ==
    [][(Saved /\ call'.op = "load" /\ call'.ret = "loaded") =>
          /\ posts'[call'.p] = call.old_posts
          /\ feed_ages'[call'.p] = call.old_ages]_vars

\* C12 witness: a load has read back two posts and a feed age that only a save
\* of this process can have put in the file.
C12_Witness ==
    /\ call.op = "load" /\ call.ret = "loaded"
    /\ Cardinality(posts[call.p]) = 2
    /\ \E f \in DOMAIN feed_ages[call.p] : feed_ages[call.p][f] > 0
    /\ \E q \in posts[call.p] : q.score < 0

----------------------------------------------------------------------------
(* Claims about the posts and feed ages of a loaded file *)

\* the index of the last entry of post_list that carries the id
LastEntryOf(post_list, id) ==
    CHOOSE k \in DOMAIN post_list :
        /\ post_list[k].postID = id
        /\ \A j \in DOMAIN post_list : post_list[j].postID = id => j <= k

\* C13: after loading a file whose posts list has several entries with the same
\* postID, the cache holds exactly one Post for that id, with the title and
\* score of the last such entry of the file.
C13_LastOneWins ==
    (call.op = "load" /\ call.ret = "loaded") =>
        LET post_list == call.data["posts"]
        IN  \A k \in DOMAIN post_list :
                LET id == post_list[k].postID
                    last == post_list[LastEntryOf(post_list, id)]
                IN  {q \in posts[call.p] : q.postID = id}
                        = {Post(id, last.title, last.score)}

\* C14: after loading a file whose feed_ages map lacks one of hot, new, top the
\* cache still has a state for that feed, with age 0, and a refresh without
\* force made once the ttl of the feed has passed fetches it.
C14_AbsentFeedNeverRefreshed ==
    /\ (call.op = "load" /\ call.ret = "loaded") =>
           \A f \in Feeds \ DOMAIN call.data["feed_ages"] :
               f \in DOMAIN feed_ages[call.p] /\ feed_ages[call.p][f] = 0
    /\ (Refreshed /\ ~call.force) =>
           \A f \in Feeds \ DOMAIN call.old_ages :
               ttl[f] < call.curr_time => f \in call.fetched_feeds

----------------------------------------------------------------------------
(* Claims about processes sharing the file, checked under SpecRace *)

\* the posts of a document, as a set
PostsOfDoc(data) == {from_dict(data["posts"][k]) : k \in DOMAIN data["posts"]}

\* C15: save merges nothing: after a save the file holds exactly the posts and
\* the feed ages the saving process has in memory, whatever another process
\* wrote to the file before.
C15_LastWriterWins ==
    Saved =>
        /\ PostsOfDoc(file) = call.old_posts
        /\ Len(file["posts"]) = Cardinality(call.old_posts)
        /\ file["feed_ages"] = call.old_ages

\* C15 witness, the lost update: the save of a process that fetched a post of
\* its own removed from the file a post that only the other process fetched and
\* saved, and the feed ages of the other process with it.
C15_Witness ==
    /\ Saved
    /\ call.old_posts # {}
    /\ \E q \in Procs \ {call.p} : \E d \in PostsOfDoc(call.old_file) :
          /\ lastFetch[q][d.postID] # NoPost
          /\ d = Post(d.postID, lastFetch[q][d.postID].title, lastFetch[q][d.postID].score)
          /\ lastFetch[call.p][d.postID] = NoPost
          /\ \A e \in PostsOfDoc(file) : e.postID # d.postID
          /\ call.old_file["feed_ages"] = feed_ages[q]
          /\ file["feed_ages"] # feed_ages[q]

----------------------------------------------------------------------------
(* Claims about count_words and search_terms, checked under SpecAnalysis *)

\* the sum of the scores of the posts of S
RECURSIVE ScoreSum(_)
ScoreSum(S) ==
    IF S = {} THEN 0
    ELSE LET q == CHOOSE q \in S : TRUE IN q.score + ScoreSum(S \ {q})

\* what the posts of S contribute together under the method
Contribution(S, method) == IF method = COUNT THEN Cardinality(S) ELSE ScoreSum(S)

\* the lower-cased tokens of a title: its maximal runs of letters
TokenSet(title) ==
    LET low == Lower(title)
    IN  {SubSeq(low, i, j) : i \in DOMAIN low, j \in DOMAIN low} \cap
        {w \in Titles :
            /\ w # <<>>
            /\ \A k \in DOMAIN w : w[k] # " "
            /\ \E i \in DOMAIN low :
                  /\ i + Len(w) - 1 <= Len(low)
                  /\ SubSeq(low, i, i + Len(w) - 1) = w
                  /\ (i = 1 \/ low[i - 1] = " ")
                  /\ (i + Len(w) - 1 = Len(low) \/ low[i + Len(w)] = " ")}

\* C16: with no term group and no title filter, count_words returns for every
\* term the number of posts (COUNT) or the sum of the scores of the posts
\* (SCORE) whose lower-cased token set contains the term; a term repeated in a
\* title counts once for that post, and a term of no post is absent.
C16_CountWords ==
    (call.op = "count_words" /\ call.term_group = NoTermGroup) =>
        /\ call.ret = "dict"
        /\ LET S == posts[call.p]
           IN  /\ DOMAIN call.result = UNION {TokenSet(q.title) : q \in S}
               /\ \A term \in DOMAIN call.result :
                     call.result[term] =
                         Contribution({q \in S : term \in TokenSet(q.title)}, call.method)

\* an aggregate result was returned
Aggregated == call.op \in {"count_words", "search_terms"} /\ call.ret = "dict"

\* C17 as claimed: every value of an aggregate result of count_words or
\* search_terms is >= 0, for every post set and both scoring methods.
C17_NonNegative ==
    Aggregated => \A key \in DOMAIN call.result : call.result[key] >= 0

\* C17 as amended: under COUNT every value of an aggregate result is >= 0; under
\* SCORE a value is negative only when the cache holds a post of negative score.
C17_NonNegativeCount ==
    Aggregated =>
        \A key \in DOMAIN call.result :
            /\ call.method = COUNT => call.result[key] >= 0
            /\ call.result[key] < 0 => \E q \in posts[call.p] : q.score < 0

\* C17 witness: a COUNT search counted a post of negative score.
C17_Witness ==
    /\ Aggregated /\ call.op = "search_terms" /\ call.method = COUNT
    /\ \A q \in posts[call.p] : q.score < 0
    /\ \E key \in DOMAIN call.result : call.result[key] > 0

\* the term occurs in the title as a whole word, letter case ignored
OccursAsWord(title, term) ==
    \E i \in DOMAIN title :
        /\ i + Len(term) - 1 <= Len(title)
        /\ EqualIgnoringCase(SubSeq(title, i, i + Len(term) - 1), term)
        /\ (i = 1 \/ title[i - 1] = " ")
        /\ (i + Len(term) - 1 = Len(title) \/ title[i + Len(term)] = " ")

\* the title passes the title filters of the call
PassesFilters(title, ignore_title_regex, require_title_regex) ==
    /\ ignore_title_regex = <<>> \/ ~Contains(title, ignore_title_regex)
    /\ require_title_regex = <<>> \/ Contains(title, require_title_regex)

----------------------------------------------------------------------------
(* Claims about sorted_dict and keys_ignored, checked under SpecUtils *)

\* sorted_dict was called as the program calls it (reverse left at True)
Ranked == call.op = "sorted_dict" /\ call.reverse

\* the result lists every entry of the dictionary once
RanksEveryEntry ==
    /\ Len(call.result) = Cardinality(DOMAIN call.dictionary)
    /\ \A key \in DOMAIN call.dictionary :
          \E i \in DOMAIN call.result : call.result[i] = <<key, call.dictionary[key]>>

C20_CaseInsensitiveBlacklist ==
    (call.op = "keys_ignored" /\ call.impl = "utils") =>
        /\ DOMAIN call.result =
              {key \in DOMAIN call.dictionary :
                  \A k \in DOMAIN call.remove : ~EqualIgnoringCase(key, call.remove[k])}
        /\ \A key \in DOMAIN call.result : call.result[key] = call.dictionary[key]

----------------------------------------------------------------------------
(* Claims about TermGroup, checked under SpecTerms *)

\* C21: TermGroup construction drops every group with fewer than two members:
\* no pattern is created for it, and when every supplied group has fewer than
\* two members sanitize returns the title unchanged.
C21_SmallGroupsDropped ==
    call.op = "sanitize" =>
        /\ \A i \in DOMAIN call.patterns : Len(call.patterns[i]) >= 2
        /\ (\A k \in DOMAIN call.groups : Len(call.groups[k]) < 2) => call.result = call.title

\* the word is a synonym of the group, letter case ignored
SynonymOf(word, group) == \E n \in DOMAIN group : EqualIgnoringCase(word, group[n])

\* sanitize was called with two groups of two synonyms and distinct first
\* members, on a title that is one word and a synonym of the first group
SubstitutedByFirst ==
    /\ call.op = "sanitize"
    /\ Len(call.groups) = 2
    /\ Len(call.groups[1]) = 2 /\ Len(call.groups[2]) = 2
    /\ call.groups[1][1] # call.groups[2][1]
    /\ call.title # <<>>
    /\ \A i \in DOMAIN call.title : call.title[i] # " "
    /\ SynonymOf(call.title, call.groups[1])

C23_RestoreOnlyRenames ==
    (call.op = "count_words" /\ call.term_group # NoTermGroup /\ posts[call.p] # {}) =>
        /\ call.ret = "dict"
        /\ LET frequency == word_frequency(posts[call.p], call.term_group, call.method)
           IN  /\ Cardinality(DOMAIN call.result) = Cardinality(DOMAIN frequency)
               /\ \A word \in DOMAIN frequency :
                      call.result[sanitize(call.term_group, word)] = frequency[word]

-----------------------------------------------------------------------------
(* Claims about SearchCache, checked under SpecSearch and SpecSearchFile *)

\* the last call of refresh_feed found the feed stale by the criteria of the
\* specification
StaleAsSpecified ==
    \/ call.force
    \/ call.feed_before.time + call.ttl < call.at
    \/ call.feed_limit = None /\ ~call.feed_before.none_feed_limit
    \/ call.feed_limit # None /\ Len(call.feed_before.posts) < call.feed_limit

\* C24: refresh_feed refreshes the feed if and only if force is set, or
\* time + ttl < now, or the limit is None while the feed was last fetched
\* bounded, or the feed holds fewer items than the requested limit; otherwise
\* it returns False and leaves the feed and all_posts unchanged.
C24_RefreshIff ==
    call.op = "refresh_feed" =>
        /\ call.ret = "True" <=> StaleAsSpecified
        /\ call.ret = "False" =>
              /\ searchCache.feeds[call.feed_name] = call.feed_before
              /\ searchCache.all_posts = call.all_posts_before

\* the last call of refresh_feed was not forced and came right after a call
\* that refreshed the same feed with the same feed_limit, before the ttl elapsed
RightAfterRefresh ==
    /\ call.op = "refresh_feed"
    /\ call.previous.ret = "True"
    /\ call.previous.feed_name = call.feed_name
    /\ call.previous.feed_limit = call.feed_limit
    /\ ~call.force
    /\ ~(call.feed_before.time + call.ttl < call.at)

\* C28 as claimed: a non-forced call right after a refresh of the same feed,
\* with the same feed_limit and before the ttl elapsed, returns False and
\* fetches nothing, whatever the feed_limit and the size of the remote feed.
C28_SecondCallValidates ==
    RightAfterRefresh => call.ret = "False" /\ call.fetched = <<>>

\* C28 as amended: such a call returns False and fetches nothing exactly when
\* feed_limit is None or the refresh before it fetched at least feed_limit
\* posts; after a refresh that fetched fewer posts than feed_limit it
\* refreshes the feed again.
C28_SecondCallValidatesWhenFull ==
    RightAfterRefresh =>
        IF call.feed_limit = None \/ Len(call.previous.fetched) >= call.feed_limit
        THEN /\ call.ret = "False"
             /\ call.fetched = <<>>
             /\ searchCache.feeds[call.feed_name] = call.feed_before
        ELSE call.ret = "True"

\* C28 witness: the remote feed held fewer posts than feed_limit and the call
\* right after the refresh refreshed again.
C28_Witness ==
    /\ RightAfterRefresh
    /\ call.feed_limit # None
    /\ Len(call.previous.fetched) < call.feed_limit
    /\ call.ret = "True"

\* C29: read_from_cache called right after save_to_cache, with the subreddit
\* name of the saved cache, returns a SearchCache that holds the saved
\* all_posts and feeds, also for a name with upper-case letters.
C29_SaveThenRead ==
    (call.op = "read_from_cache" /\ call.saved.op = "save_to_cache"
        /\ call.sub_name = call.saved.subreddit) =>
        /\ call.ret # "KeyError"
        /\ searchCache.all_posts = call.saved.all_posts
        /\ searchCache.feeds = call.saved.feeds

-----------------------------------------------------------------------------
(* Claims about v2.PostCache.refresh, checked under SpecV2Refresh *)

\* C25: when a refresh of the v2 cache fetches a post whose id was cached
\* already, the title and score stored for that id afterwards are those of
\* the most recent fetch.
C25_V2FreshObservationStored ==
    Refreshed =>
        \A i \in call.fetched_ids :
            (\E q \in call.old_posts : q.postID = i) =>
                Post(i, lastFetch[call.p][i].title, lastFetch[call.p][i].score) \in posts[call.p]

-----------------------------------------------------------------------------
(* Claims about a failing remote source, checked under SpecRemoteFailure *)

\* the call recorded last is a refresh that the failure of the remote source ended
RefreshFailed == call.op = "refresh" /\ call.ret = "Exception"

\* C26: when the remote source fails while refresh is fetching a feed, the
\* failure reaches the caller, the lastRefresh of that feed keeps the value
\* it had, so that the feed is still stale, and every post that was in the
\* set before the call is still in it (a Post being its id).
C26_FailureKeepsAgeAndPosts ==
    RefreshFailed =>
        /\ feed_ages[call.p][call.failed_feed] = call.old_ages[call.failed_feed]
        /\ NeedsRefresh(feed_ages[call.p][call.failed_feed], ttl[call.failed_feed],
                        call.force, now)
        /\ \A q \in call.old_posts : \E r \in posts[call.p] : PostEq(q, r)

\* C26 witness: the source failed after a submission was merged into a set
\* that held another post; the feed that failed was stale by its age and
\* still is.
C26_Witness ==
    /\ RefreshFailed
    /\ ~call.force
    /\ \E q \in call.old_posts : q.postID \notin call.fetched_ids
    /\ \E r \in posts[call.p] : r.postID \in call.fetched_ids
    /\ feed_ages[call.p][call.failed_feed] + ttl[call.failed_feed] < now

-----------------------------------------------------------------------------
(* Claims about caches of different subreddits, checked under SpecMix *)

\* C27: whatever the processes load, refresh and save, and whenever the file
\* is deleted, a save that writes the posts of a cache leaves them in a file
\* whose recorded subreddit is, ignoring letter case, the subreddit of that
\* cache.
C27_NoMixingOnSave ==
    (Saved /\ call.old_posts # {} /\ fileExists) =>
        EqualIgnoringCase(file["subreddit"], subreddit[call.p])

-----------------------------------------------------------------------------
(* Claims about seddit2.main, checked under SpecMain *)

\* the refresh recorded last was not forced and found no feed stale
NothingStale ==
    /\ call.op = "refresh"
    /\ ~call.force
    /\ \A f \in DOMAIN call.old_ages : ~(call.old_ages[f] + ttl[f] < call.curr_time)

\* C30: in a run of main on an existing cache file the file is written only by
\* the save that follows a refresh that returned True; when no feed is stale
\* and force is off, refresh returns False and the file stays as it was.
C30_SaveOnlyAfterRefresh ==
    [][/\ (fileExists /\ file' # file) =>
              (call.op = "refresh" /\ call.ret = "True" /\ call'.op = "save")
       /\ NothingStale => (call.ret = "False" /\ file' = file /\ call'.op # "save")]_vars

\* C30 witness: a run on a file that holds two posts ended without a save,
\* after a refresh that returned False.
C30_Witness ==
    /\ call.op = "main"
    /\ call.after = "refresh"
    /\ fileExists
    /\ Len(file["posts"]) = 2
    /\ posts[1] # {}

====
